---- MODULE Spec2Model ----
(***************************************************************************)
(* A model of the computation engine of PFC.py: the slab tax calculator    *)
(* and regime estimator (IndiaTaxCalculator), the annuity functions        *)
(* (future_value_sip, required_sip, emi) and suggest_allocation.           *)
(*                                                                         *)
(* Numbers.  Python floats are modelled by exact arithmetic:               *)
(*  - incomes, deductions and thresholds are whole rupees;                 *)
(*  - tax rates (slab rates, cess_rate) are whole percents, 5 for 0.05;    *)
(*  - tax amounts (base_tax, rebate, cess, total_tax) are paise, that is   *)
(*    hundredths of a rupee, so that segment * rate is an integer; the     *)
(*    rupee inputs are multiples of 5, which makes the cess exact too;     *)
(*  - everything else (effective_rate, the annuity values, the allocation  *)
(*    weights) is a rational [num, den] in lowest terms with den > 0.      *)
(* Strings that the code normalises (regime, risk) are sequences of        *)
(* one-character strings, so that lower() and strip() are computed.        *)
(***************************************************************************)
EXTENDS Integers, Sequences, FiniteSets, TLC

VARIABLES cfg, RISK_ALLOCATION, call, result

vars == <<cfg, RISK_ALLOCATION, call, result>>

(***************************************************************************)
(* Bounds of the model.                                                    *)
(***************************************************************************)
\* gross incomes are k * 50000 (+ 0 or 5 rupees) for k in 0..MaxGrossSteps
MaxGrossSteps == 32
\* years are k/32 for k in -4..MaxYearSteps
MaxYearSteps == 12
\* horizons are 0..MaxHorizon years
MaxHorizon == 12
\* the slab tables of SlabTax have bounds among 1..MaxSlabBound (times 100)
MaxSlabBound == 4
\* and at most MaxBoundedSlabs bounded slabs before the unbounded one
MaxBoundedSlabs == 2

(***************************************************************************)
(* Integer and rational arithmetic.                                        *)
(***************************************************************************)
Max(a, b) == IF a >= b THEN a ELSE b

Min(a, b) == IF a <= b THEN a ELSE b

Abs(a) == IF a < 0 THEN -a ELSE a

RECURSIVE GCD(_, _)
GCD(a, b) == IF b = 0 THEN a ELSE GCD(b, a % b)

\* the rational n/d (d # 0) in lowest terms with a positive denominator
Rat(n, d) ==
    LET g == GCD(Abs(n), Abs(d))
        s == IF d < 0 THEN -1 ELSE 1
    IN  [num |-> s * (n \div g), den |-> s * (d \div g)]

RatInt(n) == [num |-> n, den |-> 1]

RatAdd(a, b) == Rat(a.num * b.den + b.num * a.den, a.den * b.den)

RatSub(a, b) == Rat(a.num * b.den - b.num * a.den, a.den * b.den)

\* cross-cancelled before multiplying, to keep the products small
RatMul(a, b) ==
    LET g1 == GCD(Abs(a.num), b.den)
        g2 == GCD(Abs(b.num), a.den)
    IN  Rat((a.num \div g1) * (b.num \div g2), (a.den \div g2) * (b.den \div g1))

\* b # 0
RatDiv(a, b) == RatMul(a, Rat(b.den, b.num))

RatLe(a, b) == a.num * b.den <= b.num * a.den

RatLt(a, b) == a.num * b.den < b.num * a.den

RatMax(a, b) == IF RatLe(b, a) THEN a ELSE b

RatMin(a, b) == IF RatLe(a, b) THEN a ELSE b

RECURSIVE RatPowNat(_, _)
RatPowNat(b, n) == IF n = 0 THEN RatInt(1) ELSE RatMul(b, RatPowNat(b, n - 1))

\* b ** n for an integer n; b # 0 when n < 0
RatPow(b, n) ==
    IF n >= 0 THEN RatPowNat(b, n) ELSE RatDiv(RatInt(1), RatPowNat(b, -n))

\* Python's round(x) of a number: to the nearest integer, ties to the even one
Round(x) ==
    LET fl == x.num \div x.den
        twice == 2 * (x.num - fl * x.den)
    IN  IF twice < x.den THEN fl
        ELSE IF twice > x.den THEN fl + 1
        ELSE IF fl % 2 = 0 THEN fl ELSE fl + 1

\* Python's round(x, 2): to the nearest hundredth, ties to the even one
Round2(x) == Rat(Round(RatMul(x, RatInt(100))), 100)

(***************************************************************************)
(* Strings as sequences of characters: str.lower() and str.strip().        *)
(***************************************************************************)
Upper == <<"A", "B", "C", "D", "E", "F", "G", "H", "I", "J", "K", "L", "M",
           "N", "O", "P", "Q", "R", "S", "T", "U", "V", "W", "X", "Y", "Z">>

Lowercase == <<"a", "b", "c", "d", "e", "f", "g", "h", "i", "j", "k", "l", "m",
               "n", "o", "p", "q", "r", "s", "t", "u", "v", "w", "x", "y", "z">>

Whitespace == {" ", "\t", "\n"}

LowerChar(c) ==
    IF \E i \in 1..Len(Upper) : Upper[i] = c
    THEN Lowercase[CHOOSE i \in 1..Len(Upper) : Upper[i] = c]
    ELSE c

Lower(s) == [i \in 1..Len(s) |-> LowerChar(s[i])]

RECURSIVE LStrip(_)
LStrip(s) ==
    IF s # <<>> /\ Head(s) \in Whitespace THEN LStrip(Tail(s)) ELSE s

RECURSIVE RStrip(_)
RStrip(s) ==
    IF s # <<>> /\ s[Len(s)] \in Whitespace
    THEN RStrip(SubSeq(s, 1, Len(s) - 1))
    ELSE s

Strip(s) == RStrip(LStrip(s))

(***************************************************************************)
(* clamp, TaxSlab, TaxConfig.                                              *)
(***************************************************************************)
\* clamp(x, lo, hi) on rationals
clamp(x, lo, hi) == RatMax(lo, RatMin(hi, x))

\* Optional[float]: None is the empty sequence, a value v is <<v>>
None == <<>>

TaxSlab(up_to, rate) == [up_to |-> up_to, rate |-> rate]

TaxConfig ==
    [rebate_threshold_new |-> 700000,
     rebate_threshold_old |-> 500000,
     std_deduction_new |-> 50000,
     std_deduction_old |-> 50000,
     max_80C_old |-> 150000,
     max_80D_old |-> 25000,
     cess_rate |-> 4,
     slabs_new |-> <<TaxSlab(<<300000>>, 0), TaxSlab(<<600000>>, 5),
                     TaxSlab(<<900000>>, 10), TaxSlab(<<1200000>>, 15),
                     TaxSlab(<<1500000>>, 20), TaxSlab(None, 30)>>,
     slabs_old |-> <<TaxSlab(<<250000>>, 0), TaxSlab(<<500000>>, 5),
                     TaxSlab(<<1000000>>, 20), TaxSlab(None, 30)>>]

(***************************************************************************)
(* What a call gives back: a returned value or a raised exception.         *)
(***************************************************************************)
Return(v) == [kind |-> "return", value |-> v]

Raise(e) == [kind |-> "raise", exc |-> e]

(***************************************************************************)
(* IndiaTaxCalculator._slab_tax                                            *)
(***************************************************************************)
\* a variant that assigns instead of accumulating: tax = segment * slab.rate
accrue_assign(tax, segment, rate) == segment * rate

\* tax += segment * slab.rate
accrue(tax, segment, rate) == tax + segment * rate

\* a variant that taxes every slab it enters in full: segment = upper - lower
RECURSIVE slab_tax_loop_full_segment(_, _, _, _, _)
slab_tax_loop_full_segment(taxable, slabs, i, tax, lower) ==
    IF i > Len(slabs) THEN tax
    ELSE LET slab == slabs[i]
             upper == IF slab.up_to # None THEN slab.up_to[1] ELSE taxable
             segment == upper - lower
             tax2 == IF taxable > lower /\ segment > 0
                     THEN accrue(tax, segment, slab.rate)
                     ELSE tax
         IN  IF taxable <= upper
             THEN tax2
             ELSE slab_tax_loop_full_segment(taxable, slabs, i + 1, tax2, upper)

\* for slab in slabs: ... from the i-th slab on, with the running tax and lower
RECURSIVE slab_tax_loop(_, _, _, _, _)
slab_tax_loop(taxable, slabs, i, tax, lower) ==
    IF i > Len(slabs) THEN tax
    ELSE LET slab == slabs[i]
             upper == IF slab.up_to # None THEN slab.up_to[1] ELSE taxable
             segment == Min(taxable, upper) - lower
             tax2 == IF taxable > lower /\ segment > 0
                     THEN accrue(tax, segment, slab.rate)
                     ELSE tax
         IN  IF taxable <= upper  \* lower = upper; if taxable <= lower: break
             THEN tax2
             ELSE slab_tax_loop(taxable, slabs, i + 1, tax2, upper)

\* the tax in paise on a taxable income in rupees
slab_tax(taxable, slabs) == slab_tax_loop(taxable, slabs, 1, 0, 0)

(***************************************************************************)
(* IndiaTaxCalculator.estimate                                             *)
(***************************************************************************)
REGIME_NEW == <<"n", "e", "w">>

REGIME_OLD == <<"o", "l", "d">>

\* a variant whose fallback is the old regime
normalize_regime_old(regime) ==
    LET r == Strip(Lower(regime))
    IN  IF r \notin {REGIME_NEW, REGIME_OLD} THEN REGIME_OLD ELSE r

\* regime = regime.lower().strip(); if regime not in ("new", "old"): regime = "new"
normalize_regime(regime) ==
    LET r == Strip(Lower(regime))
    IN  IF r \notin {REGIME_NEW, REGIME_OLD} THEN REGIME_NEW ELSE r

\* a variant that grants the new-regime deduction whether salaried or not
std_deduction_unconditional(c, is_salaried, regime) ==
    IF regime = REGIME_NEW THEN c.std_deduction_new
    ELSE IF is_salaried /\ regime = REGIME_OLD THEN c.std_deduction_old
    ELSE 0

\* the standard deduction of the regime, 0 when not salaried
std_deduction_of(c, is_salaried, regime) ==
    IF is_salaried /\ regime = REGIME_NEW THEN c.std_deduction_new
    ELSE IF is_salaried /\ regime = REGIME_OLD THEN c.std_deduction_old
    ELSE 0

\* max(0.0, gross_annual_income - deductions)
taxable_income(gross, deductions) == Max(0, gross - deductions)

\* a variant without the cap: max(0.0, deduction)
clamp_deduction_uncapped(cap, deduction) == Max(0, deduction)

\* a variant without the floor: min(cap, deduction)
clamp_deduction_unfloored(cap, deduction) == Min(cap, deduction)

\* min(cap, max(0.0, deduction))
clamp_deduction(cap, deduction) == Min(cap, Max(0, deduction))

\* a variant with a strict comparison: taxable < threshold
rebate_of_strict(base_tax, taxable, threshold) ==
    IF taxable < threshold THEN base_tax ELSE 0

\* rebate = base_tax if taxable <= threshold else 0.0
rebate_of(base_tax, taxable, threshold) ==
    IF taxable <= threshold THEN base_tax ELSE 0

\* cess = tax_after_rebate * cfg.cess_rate, the rate being in percent
cess_of(tax_after_rebate, cess_rate) == (tax_after_rebate * cess_rate) \div 100

\* a variant that reports the rate in percent: total / gross * 100
effective_rate_pct(total, gross) ==
    IF gross # 0 THEN Rat(total, gross) ELSE RatInt(0)

\* total / gross_annual_income if gross_annual_income else 0.0
\* (total is in paise and gross in rupees)
effective_rate(total, gross) ==
    IF gross # 0 THEN Rat(total, 100 * gross) ELSE RatInt(0)

estimate(c, gross_annual_income, is_salaried, regime_arg, d80C_arg, d80D_arg) ==
    LET regime == normalize_regime(regime_arg)
        std_deduction == std_deduction_of(c, is_salaried, regime)
    IN  IF regime = REGIME_NEW
        THEN LET taxable == taxable_income(gross_annual_income, std_deduction)
                 base_tax == slab_tax(taxable, c.slabs_new)
                 rebate == rebate_of(base_tax, taxable, c.rebate_threshold_new)
                 tax_after_rebate == Max(0, base_tax - rebate)
                 cess == cess_of(tax_after_rebate, c.cess_rate)
                 total == tax_after_rebate + cess
             IN  Return([regime |-> 1,
                         gross |-> gross_annual_income,
                         std_deduction |-> std_deduction,
                         deductions |-> 0,
                         taxable |-> taxable,
                         base_tax |-> base_tax,
                         rebate |-> rebate,
                         cess |-> cess,
                         total_tax |-> total,
                         effective_rate |->
                             effective_rate(total, gross_annual_income)])
        ELSE LET d80c == clamp_deduction(c.max_80C_old, d80C_arg)
                 d80d == clamp_deduction(c.max_80D_old, d80D_arg)
                 std == IF is_salaried THEN std_deduction ELSE 0
                 deductions == d80c + d80d + std
                 taxable == taxable_income(gross_annual_income, deductions)
                 base_tax == slab_tax(taxable, c.slabs_old)
                 rebate == rebate_of(base_tax, taxable, c.rebate_threshold_old)
                 tax_after_rebate == Max(0, base_tax - rebate)
                 cess == cess_of(tax_after_rebate, c.cess_rate)
                 total == tax_after_rebate + cess
             IN  Return([regime |-> 0,
                         gross |-> gross_annual_income,
                         std_deduction |-> std,
                         deductions |-> deductions - std,
                         taxable |-> taxable,
                         base_tax |-> base_tax,
                         rebate |-> rebate,
                         cess |-> cess,
                         total_tax |-> total,
                         effective_rate |->
                             effective_rate(total, gross_annual_income)])

(***************************************************************************)
(* Planning calculators: future_value_sip, required_sip, emi.              *)
(* Arguments and results are rationals; annual_return_pct is in percent.   *)
(***************************************************************************)
ZeroDivisionError == "ZeroDivisionError"

\* r = annual_return_pct / 100.0 / 12.0
periodic_rate(annual_pct) == RatDiv(RatDiv(annual_pct, RatInt(100)), RatInt(12))

\* n = int(round(years * 12))
periods(years) == Round(RatMul(years, RatInt(12)))

\* (1 + r) ** n raises ZeroDivisionError for 0.0 to a negative power
pow_raises(r, n) == RatAdd(RatInt(1), r).num = 0 /\ n < 0

\* ((1 + r) ** n - 1) / r * (1 + r), for r # 0 and not pow_raises(r, n)
annuity_factor(r, n) ==
    LET g == RatAdd(RatInt(1), r)
    IN  RatMul(RatDiv(RatSub(RatPow(g, n), RatInt(1)), r), g)

future_value_sip(monthly, annual_return_pct, years) ==
    LET r == periodic_rate(annual_return_pct)
        n == periods(years)
    IN  IF r.num = 0 THEN Return(RatMul(monthly, RatInt(n)))
        ELSE IF pow_raises(r, n) THEN Raise(ZeroDivisionError)
        ELSE Return(RatMul(monthly, annuity_factor(r, n)))

\* a variant whose zero-rate branch multiplies, as future_value_sip does
required_sip_times(target, annual_return_pct, years) ==
    LET r == periodic_rate(annual_return_pct)
        n == periods(years)
    IN  IF r.num = 0 THEN Return(RatMul(target, RatInt(n)))
        ELSE IF pow_raises(r, n) THEN Raise(ZeroDivisionError)
        ELSE IF annuity_factor(r, n).num = 0 THEN Raise(ZeroDivisionError)
        ELSE Return(RatDiv(target, annuity_factor(r, n)))

required_sip(target, annual_return_pct, years) ==
    LET r == periodic_rate(annual_return_pct)
        n == periods(years)
    IN  IF r.num = 0
        THEN IF n = 0 THEN Raise(ZeroDivisionError)
             ELSE Return(RatDiv(target, RatInt(n)))
        ELSE IF pow_raises(r, n) THEN Raise(ZeroDivisionError)
        ELSE IF annuity_factor(r, n).num = 0 THEN Raise(ZeroDivisionError)
        ELSE Return(RatDiv(target, annuity_factor(r, n)))

emi(principal, annual_rate_pct, years) ==
    LET r == periodic_rate(annual_rate_pct)
        n == periods(years)
    IN  IF r.num = 0
        THEN IF n = 0 THEN Raise(ZeroDivisionError)
             ELSE Return(RatDiv(principal, RatInt(n)))
        ELSE IF pow_raises(r, n) THEN Raise(ZeroDivisionError)
        ELSE LET p == RatPow(RatAdd(RatInt(1), r), n)
                 d == RatSub(p, RatInt(1))
             IN  IF d.num = 0 THEN Raise(ZeroDivisionError)
                 ELSE Return(RatDiv(RatMul(RatMul(principal, r), p), d))

(***************************************************************************)
(* Portfolio suggestion: RISK_ALLOCATION and suggest_allocation.           *)
(***************************************************************************)
CONSERVATIVE == <<"c", "o", "n", "s", "e", "r", "v", "a", "t", "i", "v", "e">>

MODERATE == <<"m", "o", "d", "e", "r", "a", "t", "e">>

AGGRESSIVE == <<"a", "g", "g", "r", "e", "s", "s", "i", "v", "e">>

\* the module-level table, weights as rationals
RiskAllocationTable ==
    [r \in {CONSERVATIVE, MODERATE, AGGRESSIVE} |->
        IF r = CONSERVATIVE
        THEN [equity |-> Rat(30, 100), debt |-> Rat(60, 100), gold |-> Rat(10, 100)]
        ELSE IF r = MODERATE
        THEN [equity |-> Rat(60, 100), debt |-> Rat(30, 100), gold |-> Rat(10, 100)]
        ELSE [equity |-> Rat(80, 100), debt |-> Rat(15, 100), gold |-> Rat(5, 100)]]

\* base = RISK_ALLOCATION.get(risk, RISK_ALLOCATION["moderate"]).copy()
base_of(table, risk) ==
    IF risk \in DOMAIN table THEN table[risk] ELSE table[MODERATE]

\* the remainder 1.0 - base["equity"] - base["gold"]
remainder(equity, gold) == RatSub(RatSub(RatInt(1), equity), gold)

\* a variant whose long-horizon test is off by one: horizon_years >= 9
nudge_from_nine(base, horizon_years) ==
    IF horizon_years >= 9
    THEN LET equity == clamp(RatAdd(base.equity, Rat(5, 100)),
                             Rat(20, 100), Rat(90, 100))
         IN  [equity |-> equity,
              debt |-> clamp(remainder(equity, base.gold),
                             Rat(5, 100), Rat(75, 100)),
              gold |-> base.gold]
    ELSE IF horizon_years <= 3
    THEN LET equity == clamp(RatSub(base.equity, Rat(15, 100)),
                             Rat(10, 100), Rat(70, 100))
         IN  [equity |-> equity,
              debt |-> clamp(remainder(equity, base.gold),
                             Rat(20, 100), Rat(85, 100)),
              gold |-> base.gold]
    ELSE base

\* nudge equity up for long horizons, down for short
nudge(base, horizon_years) ==
    IF horizon_years >= 10
    THEN LET equity == clamp(RatAdd(base.equity, Rat(5, 100)),
                             Rat(20, 100), Rat(90, 100))
         IN  [equity |-> equity,
              debt |-> clamp(remainder(equity, base.gold),
                             Rat(5, 100), Rat(75, 100)),
              gold |-> base.gold]
    ELSE IF horizon_years <= 3
    THEN LET equity == clamp(RatSub(base.equity, Rat(15, 100)),
                             Rat(10, 100), Rat(70, 100))
         IN  [equity |-> equity,
              debt |-> clamp(remainder(equity, base.gold),
                             Rat(20, 100), Rat(85, 100)),
              gold |-> base.gold]
    ELSE base

\* s = sum(base.values()); base[k] = round(base[k] / s, 2)
normalize(base) ==
    LET s == RatAdd(RatAdd(base.equity, base.debt), base.gold)
    IN  IF s.num = 0 THEN Raise(ZeroDivisionError)
        ELSE Return([k \in DOMAIN base |-> Round2(RatDiv(base[k], s))])

suggest_allocation(table, risk_arg, horizon_years) ==
    LET risk == Strip(Lower(risk_arg))
    IN  normalize(nudge(base_of(table, risk), horizon_years))

\* a variant without .copy(): base is the table's own entry, so the
\* assignments base[k] = ... are made to that entry
written_entries_aliased(table, risk) ==
    {IF risk \in DOMAIN table THEN risk ELSE MODERATE}

\* the entries of the table whose dict the assignments to base (lines 255-263)
\* are made to: base is a .copy(), a dict of its own, so none of them
written_entries(table, risk) == {}

\* the module-level table once suggest_allocation has run: an entry that base
\* aliases holds what base holds at the end, the others are as before
table_after_suggest(table, risk_arg, horizon_years) ==
    LET risk == Strip(Lower(risk_arg))
        nudged == nudge(base_of(table, risk), horizon_years)
        r == normalize(nudged)
        final == IF r.kind = "return" THEN r.value ELSE nudged
    IN  [k \in DOMAIN table |->
            IF k \in written_entries(table, risk) THEN final ELSE table[k]]

(***************************************************************************)
(* The inputs the calls are made with.                                     *)
(***************************************************************************)
GrossInputs ==
    {k * 50000 + d : k \in 0..MaxGrossSteps, d \in {0, 5}} \cup {-50000, -5}

D80CInputs == {-5000, 0, 100000, 150000, 200000}

D80DInputs == {-5000, 0, 25000, 30000}

RegimeInputs ==
    {REGIME_NEW, REGIME_OLD, <<"N", "E", "W">>, <<" ", "O", "l", "d", "\n">>,
     <<"x", "y", "z">>, <<>>}

\* the slab tables _slab_tax is applied to: strictly increasing positive bounds,
\* then one unbounded slab; rates in percent, not necessarily increasing
SlabBounds == {100 * k : k \in 1..MaxSlabBound}

SlabRates == {0, 10, 100}

SlabChoices ==
    {TaxSlab(<<b>>, r) : b \in SlabBounds, r \in SlabRates}
        \cup {TaxSlab(None, r) : r \in SlabRates}

ValidSlabTable(t) ==
    /\ t[Len(t)].up_to = None
    /\ \A i \in 1..(Len(t) - 1) : t[i].up_to # None
    /\ \A i \in 1..(Len(t) - 2) : t[i].up_to[1] < t[i + 1].up_to[1]

SlabTables ==
    {t \in UNION {[1..n -> SlabChoices] : n \in 1..(MaxBoundedSlabs + 1)} :
        ValidSlabTable(t)}

TaxableInputs == {50 * k : k \in 0..(2 * MaxSlabBound + 2)}

AmountInputs == {RatInt(-100), RatInt(0), RatInt(100), RatInt(2500)}

PctInputs == {RatInt(-1200), RatInt(0), RatInt(120), RatInt(600)}

YearsInputs == {Rat(k, 32) : k \in -4..MaxYearSteps}

RiskInputs ==
    {CONSERVATIVE, MODERATE, AGGRESSIVE,
     <<" ", "M", "o", "d", "e", "r", "a", "t", "e", " ">>,
     <<"r", "i", "s", "k", "y">>}

HorizonInputs == 0..MaxHorizon

(***************************************************************************)
(* The state machine: the calculator and the module-level table are built  *)
(* once; each call is made from the idle state and its result is handed    *)
(* back and then dropped by the caller.                                    *)
(***************************************************************************)
NoCall == [op |-> "none"]

NoResult == [kind |-> "none"]

Init ==
    /\ cfg = TaxConfig
    /\ RISK_ALLOCATION = RiskAllocationTable
    /\ call = NoCall
    /\ result = NoResult

Estimate ==
    /\ call.op = "none"
    /\ \E gross \in GrossInputs, is_salaried \in BOOLEAN, regime \in RegimeInputs,
          d80c \in D80CInputs, d80d \in D80DInputs :
        /\ call' = [op |-> "estimate", gross |-> gross, is_salaried |-> is_salaried,
                    regime |-> regime, d80c |-> d80c, d80d |-> d80d]
        /\ result' = estimate(cfg, gross, is_salaried, regime, d80c, d80d)
    /\ UNCHANGED <<cfg, RISK_ALLOCATION>>

SlabTax ==
    /\ call.op = "none"
    /\ \E taxable \in TaxableInputs, slabs \in SlabTables :
        /\ call' = [op |-> "_slab_tax", taxable |-> taxable, slabs |-> slabs]
        /\ result' = Return(slab_tax(taxable, slabs))
    /\ UNCHANGED <<cfg, RISK_ALLOCATION>>

FutureValueSip ==
    /\ call.op = "none"
    /\ \E monthly \in AmountInputs, pct \in PctInputs, years \in YearsInputs :
        /\ call' = [op |-> "future_value_sip", amount |-> monthly, pct |-> pct,
                    years |-> years]
        /\ result' = future_value_sip(monthly, pct, years)
    /\ UNCHANGED <<cfg, RISK_ALLOCATION>>

RequiredSip ==
    /\ call.op = "none"
    /\ \E target \in AmountInputs, pct \in PctInputs, years \in YearsInputs :
        /\ call' = [op |-> "required_sip", amount |-> target, pct |-> pct,
                    years |-> years]
        /\ result' = required_sip(target, pct, years)
    /\ UNCHANGED <<cfg, RISK_ALLOCATION>>

Emi ==
    /\ call.op = "none"
    /\ \E principal \in AmountInputs, pct \in PctInputs, years \in YearsInputs :
        /\ call' = [op |-> "emi", amount |-> principal, pct |-> pct,
                    years |-> years]
        /\ result' = emi(principal, pct, years)
    /\ UNCHANGED <<cfg, RISK_ALLOCATION>>

SuggestAllocation ==
    /\ call.op = "none"
    /\ \E risk \in RiskInputs, horizon_years \in HorizonInputs :
        /\ call' = [op |-> "suggest_allocation", risk |-> risk,
                    horizon_years |-> horizon_years]
        /\ result' = suggest_allocation(RISK_ALLOCATION, risk, horizon_years)
        /\ RISK_ALLOCATION' =
               table_after_suggest(RISK_ALLOCATION, risk, horizon_years)
    /\ UNCHANGED cfg

\* the caller has the result; the engine is idle again
Done ==
    /\ call.op # "none"
    /\ call' = NoCall
    /\ result' = NoResult
    /\ UNCHANGED <<cfg, RISK_ALLOCATION>>

Next ==
    \/ Estimate
    \/ SlabTax
    \/ FutureValueSip
    \/ RequiredSip
    \/ Emi
    \/ SuggestAllocation
    \/ Done

Spec == Init /\ [][Next]_vars

(***************************************************************************)
(* Properties.                                                             *)
(***************************************************************************)
IsEstimate == call.op = "estimate"

\* the rebate threshold of the regime named by a regime string "new" or "old"
ThresholdOf(regime) ==
    IF regime = REGIME_NEW THEN cfg.rebate_threshold_new
    ELSE cfg.rebate_threshold_old

\* C1: for every estimate call in the new or the old regime with a
\* non-negative gross income: when the taxable income is at or below the
\* regime's rebate threshold, rebate is the whole base tax and cess and
\* total_tax are 0; when it is above, rebate is 0, cess is base_tax times the
\* cess rate and total_tax is base_tax + cess.  New regime, salaried, gross
\* 700,000 gives taxable 650,000 and total_tax 0.
C1_RebateCliff ==
    (IsEstimate /\ call.regime \in {REGIME_NEW, REGIME_OLD} /\ call.gross >= 0) =>
        /\ result.kind = "return"
        /\ LET v == result.value
               threshold == ThresholdOf(call.regime)
           IN  /\ v.taxable <= threshold =>
                      v.rebate = v.base_tax /\ v.cess = 0 /\ v.total_tax = 0
               /\ v.taxable > threshold =>
                      /\ v.rebate = 0
                      /\ v.cess * 100 = v.base_tax * cfg.cess_rate
                      /\ v.total_tax = v.base_tax + v.cess
               /\ (call.regime = REGIME_NEW /\ call.is_salaried
                       /\ call.gross = 700000) =>
                      v.taxable = 650000 /\ v.total_tax = 0

\* new regime, salaried, gross 700,000: a positive base tax fully waived
C1_Witness ==
    /\ IsEstimate
    /\ call.regime = REGIME_NEW /\ call.is_salaried /\ call.gross = 700000
    /\ result.value.taxable = 650000
    /\ result.value.base_tax > 0
    /\ result.value.rebate = result.value.base_tax
    /\ result.value.total_tax = 0

\* C2: in the old regime, for non-negative gross, 80C and 80D, estimate uses
\* min(80C, 150,000) and min(80D, 25,000), adds the 50,000 standard deduction
\* only when salaried, returns taxable = max(0, gross - all of them) and
\* reports deductions = clamped 80C + clamped 80D; an input above its cap is
\* truncated, never rejected.  Salaried, gross 1,000,000, 80C 200,000, 80D 0
\* gives taxable 800,000.
C2_OldRegimeDeductions ==
    (IsEstimate /\ call.regime = REGIME_OLD /\ call.gross >= 0
        /\ call.d80c >= 0 /\ call.d80d >= 0) =>
        /\ result.kind = "return"
        /\ LET v == result.value
               c80 == Min(call.d80c, 150000)
               d80 == Min(call.d80d, 25000)
               std == IF call.is_salaried THEN 50000 ELSE 0
           IN  /\ v.taxable = Max(0, call.gross - (c80 + d80 + std))
               /\ v.deductions = c80 + d80
               /\ v.std_deduction = std
               /\ (call.is_salaried /\ call.gross = 1000000
                       /\ call.d80c = 200000 /\ call.d80d = 0) =>
                      v.taxable = 800000

\* old regime, salaried, gross 1,000,000 with an 80C input above its cap
C2_Witness ==
    /\ IsEstimate
    /\ call.regime = REGIME_OLD /\ call.is_salaried /\ call.gross = 1000000
    /\ call.d80c = 200000 /\ call.d80d = 0
    /\ result.kind = "return"
    /\ result.value.deductions = 150000
    /\ result.value.taxable = 800000

\* C3: in the new regime taxable = max(0, gross - std_deduction), the
\* standard deduction being 50,000 when salaried and 0 otherwise; the
\* deductions field is 0 and the whole record is the same whatever the 80C
\* and 80D arguments are.
C3_NewRegimeIgnoresItemized ==
    (IsEstimate /\ call.regime = REGIME_NEW) =>
        /\ result.kind = "return"
        /\ LET std == IF call.is_salaried THEN 50000 ELSE 0
           IN  /\ result.value.std_deduction = std
               /\ result.value.taxable = Max(0, call.gross - std)
               /\ result.value.deductions = 0
        /\ \A c \in D80CInputs, d \in D80DInputs :
               estimate(cfg, call.gross, call.is_salaried, call.regime, c, d)
                   = result

\* a new-regime call with itemized inputs supplied and a positive taxable income
C3_Witness ==
    /\ IsEstimate
    /\ call.regime = REGIME_NEW /\ ~call.is_salaried
    /\ call.d80c = 200000 /\ call.d80d = 30000
    /\ result.value.taxable = call.gross
    /\ result.value.taxable > 0
    /\ result.value.deductions = 0

\* C4: _slab_tax is monotonically non-decreasing in the taxable income: for
\* every valid slab table and incomes 0 <= a <= b, tax(a) <= tax(b).
C4_SlabTaxMonotone ==
    call.op = "_slab_tax" =>
        \A a \in TaxableInputs :
            a <= call.taxable =>
                slab_tax(a, call.slabs) <= result.value

\* an income beyond the last bound of a table whose rates decrease
C4_Witness ==
    /\ call.op = "_slab_tax"
    /\ Len(call.slabs) = 3
    /\ call.slabs[1].rate > call.slabs[2].rate
    /\ call.slabs[2].rate > call.slabs[3].rate
    /\ call.taxable > call.slabs[2].up_to[1]
    /\ result.value > 0

\* C5: a regime string that, lower-cased and stripped, is neither "new" nor
\* "old" is treated as the new regime and not rejected: the record returned
\* is the one returned for "new" with the same other arguments.
C5_UnknownRegimeIsNew ==
    (IsEstimate /\ Strip(Lower(call.regime)) \notin {REGIME_NEW, REGIME_OLD}) =>
        /\ result.kind = "return"
        /\ result.value.regime = 1
        /\ result = estimate(cfg, call.gross, call.is_salaried, REGIME_NEW,
                             call.d80c, call.d80d)

\* the regime "xyz" on an income that is taxed
C5_Witness ==
    /\ IsEstimate
    /\ call.regime = <<"x", "y", "z">>
    /\ result.kind = "return"
    /\ result.value.regime = 1
    /\ result.value.total_tax > 0

\* C6: effective_rate is total_tax / gross when gross is positive (that is,
\* effective_rate * gross is total_tax, here in paise over 100), and exactly 0
\* with no exception when gross is 0, in both regimes, salaried or not.
C6_EffectiveRate ==
    (IsEstimate /\ call.gross >= 0) =>
        /\ result.kind = "return"
        /\ call.gross > 0 =>
               RatMul(result.value.effective_rate, RatInt(call.gross))
                   = Rat(result.value.total_tax, 100)
        /\ call.gross = 0 => result.value.effective_rate = RatInt(0)

\* gross income 0: the record is returned with an effective rate of 0
C6_Witness ==
    /\ IsEstimate
    /\ call.gross = 0
    /\ result.kind = "return"
    /\ result.value.total_tax = 0
    /\ result.value.effective_rate = RatInt(0)

IsAnnuity == call.op \in {"future_value_sip", "required_sip", "emi"}

\* C7: each of future_value_sip, required_sip and emi rejects a non-positive
\* period count: whenever n = round(years * 12) <= 0 the call reports a
\* failure and returns no number, whatever the amount and the rate.
C7_NonPositivePeriodsRejected ==
    (IsAnnuity /\ periods(call.years) <= 0) => result.kind = "raise"

HasNegativeInput == call.gross < 0 \/ call.d80c < 0 \/ call.d80d < 0

Categories == {CONSERVATIVE, MODERATE, AGGRESSIVE}

\* C9: for each of the three risk categories and every horizon >= 1,
\* suggest_allocation returns exactly the three weights equity, debt, gold,
\* each in [0, 1], summing to 1.0 within 0.01; for horizons strictly between
\* 3 and 10 the result is the category's base split, and the gold weight is
\* the base gold weight for every horizon.
C9_Allocation ==
    (call.op = "suggest_allocation" /\ call.risk \in Categories
        /\ call.horizon_years >= 1) =>
        /\ result.kind = "return"
        /\ DOMAIN result.value = {"equity", "debt", "gold"}
        /\ LET w == result.value
               sum == RatAdd(RatAdd(w.equity, w.debt), w.gold)
               base == RISK_ALLOCATION[call.risk]
           IN  /\ \A k \in DOMAIN w :
                      RatLe(RatInt(0), w[k]) /\ RatLe(w[k], RatInt(1))
               /\ RatLe(Rat(99, 100), sum) /\ RatLe(sum, Rat(101, 100))
               /\ (3 < call.horizon_years /\ call.horizon_years < 10) => w = base
               /\ w.gold = base.gold

\* a long horizon for the aggressive category: equity nudged up to 0.85
C9_Witness ==
    /\ call.op = "suggest_allocation"
    /\ call.risk = AGGRESSIVE
    /\ call.horizon_years >= 10
    /\ result.kind = "return"
    /\ result.value.equity = Rat(85, 100)
    /\ result.value.debt = Rat(10, 100)

\* required_sip applied to what future_value_sip returned gives back the
\* contribution
RoundTrips ==
    /\ result.kind = "return"
    /\ required_sip(result.value, call.pct, call.years) = Return(call.amount)

\* C10 (as stated): for every contribution x, rate r >= 0 and years y > 0,
\* required_sip(future_value_sip(x, r, y), r, y) is x and nothing is raised.
C10_RoundTripAllPositiveYears ==
    (call.op = "future_value_sip" /\ call.pct.num >= 0 /\ call.years.num > 0) =>
        RoundTrips

\* C10 (amended): for every contribution x, rate r >= 0 and years y with at
\* least one period, n = round(y * 12) >= 1,
\* required_sip(future_value_sip(x, r, y), r, y) is x and nothing is raised.
C10_RoundTripAtLeastOnePeriod ==
    (call.op = "future_value_sip" /\ call.pct.num >= 0
        /\ periods(call.years) >= 1) =>
        RoundTrips

\* a compounding round trip: a positive rate over several periods
C10_Witness ==
    /\ call.op = "future_value_sip"
    /\ call.pct = RatInt(120)
    /\ periods(call.years) = 4
    /\ call.amount = RatInt(2500)
    /\ result.kind = "return"
    /\ RatLt(RatInt(10000), result.value)
    /\ required_sip(result.value, call.pct, call.years) = Return(call.amount)

\* C11: the engine keeps no mutable shared state: after any sequence of
\* estimate and suggest_allocation calls the calculator's TaxConfig and the
\* RISK_ALLOCATION table are as they were built, so a call returns what the
\* same call returns when it is the first one made.
C11_NoSharedMutableState ==
    /\ cfg = TaxConfig
    /\ RISK_ALLOCATION = RiskAllocationTable
    /\ IsEstimate =>
           result = estimate(TaxConfig, call.gross, call.is_salaried,
                             call.regime, call.d80c, call.d80d)
    /\ call.op = "suggest_allocation" =>
           result = suggest_allocation(RiskAllocationTable, call.risk,
                                       call.horizon_years)

\* a call that nudged and rewrote its base split, with the table as built
C11_Witness ==
    /\ call.op = "suggest_allocation"
    /\ call.risk = MODERATE
    /\ call.horizon_years <= 3
    /\ result.kind = "return"
    /\ result.value.equity = Rat(45, 100)
    /\ result.value # RISK_ALLOCATION[MODERATE]
    /\ RISK_ALLOCATION[MODERATE].equity = Rat(60, 100)
    /\ cfg = TaxConfig

\* the lower edge of the i-th slab: the bound of the slab before it, 0 for
\* the first
LowerEdge(slabs, i) == IF i = 1 THEN 0 ELSE slabs[i - 1].up_to[1]

\* the upper edge of the i-th slab: its bound, the income itself if unbounded
UpperEdge(taxable, slabs, i) ==
    IF slabs[i].up_to = None THEN taxable ELSE slabs[i].up_to[1]

\* the sum over the slabs 1..n of max(0, min(taxable, upper) - lower) * rate
RECURSIVE SegmentSum(_, _, _)
SegmentSum(taxable, slabs, n) ==
    IF n = 0 THEN 0
    ELSE SegmentSum(taxable, slabs, n - 1)
             + Max(0, Min(taxable, UpperEdge(taxable, slabs, n))
                          - LowerEdge(slabs, n)) * slabs[n].rate

\* the slabs 1..n taxed over their whole width
RECURSIVE FullSlabs(_, _)
FullSlabs(slabs, n) ==
    IF n = 0 THEN 0
    ELSE FullSlabs(slabs, n - 1)
             + (slabs[n].up_to[1] - LowerEdge(slabs, n)) * slabs[n].rate

\* C12: for every non-negative taxable income and valid slab table _slab_tax,
\* early exit and all, returns the sum over ALL slabs of
\* max(0, min(taxable, upper) - lower) * rate; so tax(0) = 0, and an income
\* equal to a slab's upper bound is taxed at the rates of that slab and the
\* slabs below it only.  The base tax of every estimate is that sum over the
\* regime's table.
C12_SlabTaxIsSegmentSum ==
    /\ call.op = "_slab_tax" =>
        /\ result.value
               = SegmentSum(call.taxable, call.slabs, Len(call.slabs))
        /\ call.taxable = 0 => result.value = 0
        /\ \A i \in 1..(Len(call.slabs) - 1) :
               call.taxable = call.slabs[i].up_to[1] =>
                   result.value = FullSlabs(call.slabs, i)
    /\ IsEstimate =>
           LET slabs == IF result.value.regime = 1 THEN cfg.slabs_new
                        ELSE cfg.slabs_old
           IN  result.value.base_tax
                   = SegmentSum(result.value.taxable, slabs, Len(slabs))

\* an income exactly at the first bound of a table whose next slab is taxed
C12_Witness ==
    /\ call.op = "_slab_tax"
    /\ Len(call.slabs) = 3
    /\ call.taxable = call.slabs[1].up_to[1]
    /\ call.slabs[1].rate > 0
    /\ call.slabs[2].rate > call.slabs[1].rate
    /\ result.value = call.taxable * call.slabs[1].rate

====
